---- MODULE Spec2Model ----
(***************************************************************************)
(* Model of lerobot/common/envs/simxarm/simxarm/task/base.py: the Base     *)
(* simxarm environment (reset / step / render / close and the workspace    *)
(* limiter).                                                               *)
(*                                                                         *)
(* Lengths and action components are fixed-point integers in units of      *)
(* 1e-5, so that every literal of the source (1.655, 0.105, 0.15, 0.3,     *)
(* 0.63625, 1.2, 0.2) is exact.  The float expressions of _limit_gripper   *)
(* evaluate to exactly these decimals (1.655-0.105+0.15 = 1.7,             *)
(* 1.655-0.105-0.3 = 1.25, 0.3+0.3 = 0.6, 0.3-0.3 = 0.0 in binary64).      *)
(*                                                                         *)
(* The physics engine, the renderer and the concrete task's hooks are      *)
(* external to base.py; they are modelled by the small operators of the    *)
(* section "external collaborators".                                       *)
(***************************************************************************)
EXTENDS Integers, Sequences, FiniteSets, TLC

VARIABLES
    data,              \* self.data: [time, qpos, qvel, site_xpos]
    mocap,             \* the control vector last given to the mocap interface
    gripper_rotation,  \* self.gripper_rotation
    goal,              \* the goal sampled by the task's _sample_goal
    overridden,        \* the hooks the concrete task class overrides
    viewer,            \* self.viewer: <<>> for None, <<w>> a viewer on glfw window w
    viewers,           \* self._viewers: set of <<mode, window>>
    windows,           \* the glfw windows that exist
    offsize,           \* <<model.vis.global_.offwidth, .offheight>>
    ret,               \* outcome of the last call, as its caller sees it
    log                \* calls the last operation made on its collaborators

vars == <<data, mocap, gripper_rotation, goal, overridden, viewer, viewers,
          windows, offsize, ret, log>>

---------------------------------------------------------------------------
(* Attributes set by __init__ *)

center_of_table == <<165500, 30000, 63625>>
max_z == 120000
min_z == 20000
n_substeps == 20
n_actions == 4
DefaultGripperRotation == <<0, 1, 0, 0>>

(* Bounds of the model *)
MaxTime == 4      \* step is explored while data.time + 2 <= MaxTime
Margin == 5000    \* how far outside the workspace the outer grid points lie

Min(a, b) == IF b < a THEN b ELSE a
Max(a, b) == IF b > a THEN b ELSE a

---------------------------------------------------------------------------
(* Input domains *)

\* Representative gripper coordinates per axis: just outside, and exactly on,
\* each face of the workspace box.
GridX == <<125000 - Margin, 125000, 170000, 170000 + Margin>>
GridY == <<0 - Margin, 0, 60000, 60000 + Margin>>
GridZ == <<20000 - Margin, 20000, 120000, 120000 + Margin>>
Grid(axis) == IF axis = 1 THEN GridX ELSE IF axis = 2 THEN GridY ELSE GridZ

ActOne == 5000 * n_substeps            \* the action value 1.0 (100000 units)
ActionLow == 0 - ActOne                \* action_space.low
ActionHigh == ActOne                   \* action_space.high
PosVals == {0 - ActOne, 0, ActOne}
GripVals == {0, ActOne}
ValidActions == {<<x, y, z, g>> : x \in PosVals, y \in PosVals, z \in PosVals, g \in GripVals}
\* wrong shape (3 or 5 components) or a component outside the action space
InvalidActions ==
    { <<0, 0, 0 - ActOne>>, <<0, 0, 0 - ActOne, 0, 0>>,
      <<0, 0, 0 - 10 * ActOne, 0>>, <<2 * ActOne, 0, 0, 0>> }
\* deltas for direct calls of the limiter, which has no range check of its own
DeltaVals == PosVals \cup {0 - 10 * ActOne, 10 * ActOne}
Deltas == {<<x, y, z>> : x \in DeltaVals, y \in DeltaVals, z \in DeltaVals}
Actions == ValidActions \cup InvalidActions

Hooks == {"is_success", "get_reward", "_sample_goal"}
\* Concrete task classes: __init__ runs _env_setup, which calls _sample_goal,
\* so every constructed object overrides at least _sample_goal.
TaskTypes == { Hooks, {"_sample_goal", "is_success"} }
Goals == {20000, 120000}

initial_time == 0
initial_qpos == <<GridX[2], GridY[2], GridZ[2], 0>>
initial_qvel == <<0, 0, 0, 0>>
InitialOffsize == <<640, 480>>
RenderSizes == {<<384, 384>>}

---------------------------------------------------------------------------
(* External collaborators *)

\* Forward kinematics: the grasp site follows the arm coordinates of qpos.
SiteXpos(qpos) == [grasp |-> SubSeq(qpos, 1, 3)]

\* mj_forward: recompute the derived quantities (site positions) from qpos.
MjForward(d) == [d EXCEPT !.site_xpos = SiteXpos(d.qpos)]

Sign(v) == IF v > 0 THEN 1 ELSE IF v < 0 THEN -1 ELSE 0
GridIdx(axis, v) == CHOOSE i \in 1..Len(Grid(axis)) : Grid(axis)[i] = v
MoveOnGrid(axis, v, dir) ==
    Grid(axis)[Max(1, Min(Len(Grid(axis)), GridIdx(axis, v) + dir))]

\* One physics substep (sim.step): kinematics of the current qpos first, then
\* integration: the mocap weld pulls each arm coordinate one grid point in
\* the direction of the commanded delta, the knuckle closes on a positive
\* gripper control; time advances by one timestep.
MjStep(d, m) ==
    LET q == d.qpos
        q2 == IF m = <<>> THEN q
              ELSE << MoveOnGrid(1, q[1], Sign(m[1])),
                      MoveOnGrid(2, q[2], Sign(m[2])),
                      MoveOnGrid(3, q[3], Sign(m[3])),
                      IF m[8] > 0 THEN 1 ELSE q[4] >>
    IN [ time |-> d.time + 1,
         qpos |-> q2,
         qvel |-> [i \in 1..4 |-> q2[i] - q[i]],
         site_xpos |-> SiteXpos(q) ]

\* mocap.apply_action: the control vector becomes the mocap target.
MocapApplyAction(m, vec) == vec

\* action_space.contains for an array of the right shape
ActionSpaceContains(action) ==
    \A i \in 1..Len(action) : ActionLow <= action[i] /\ action[i] <= ActionHigh

\* The concrete task's hooks, where it overrides them.
TaskReward(d, g) == IF d.site_xpos.grasp[3] >= g THEN 0 ELSE -1
TaskSuccess(d, g) == d.site_xpos.grasp[3] >= g

---------------------------------------------------------------------------
(* base.py *)

\* robot_state: eef (the grasp site) concatenated with the knuckle angle
RobotState(d) == d.site_xpos.grasp \o <<d.qpos[4]>>

\* _get_obs of the task, through the accessor layer
GetObs(d) == RobotState(d)

\* Base.is_success / Base.get_reward / Base._sample_goal
BaseHook(h) ==
    IF h = "is_success"
    THEN [raised |-> "none", returned |-> TRUE, value |-> "NotImplementedError()"]
    ELSE [raised |-> "NotImplementedError", returned |-> FALSE, value |-> "none"]

\* Variants of the limiter with one plausible slip each
ClampUp(c, i) == [c EXCEPT ![i] = Min(c[i], 0)]
ClampDown(c, i) == [c EXCEPT ![i] = Max(c[i], 0)]
LimitWith(gp, pc, xhi, xlo, yhi, ylo, zhi, zlo, ycomp) ==
    LET c1 == IF gp[1] > xhi THEN ClampUp(pc, 1) ELSE pc
        c2 == IF gp[1] < xlo THEN ClampDown(c1, 1) ELSE c1
        c3 == IF gp[2] > yhi THEN ClampUp(c2, ycomp) ELSE c2
        c4 == IF gp[2] < ylo THEN ClampDown(c3, 2) ELSE c3
        c5 == IF gp[3] > zhi THEN ClampUp(c4, 3) ELSE c4
        c6 == IF gp[3] < zlo THEN ClampDown(c5, 3) ELSE c5
    IN c6
\* the upper x bound lacks the -0.105 offset
LimitGripper_upperXNoOffset(gripper_pos, pos_ctrl) ==
    LimitWith(gripper_pos, pos_ctrl, center_of_table[1] + 15000, 125000, 60000, 0,
              max_z, min_z, 2)
\* the lower x bound is derived from center_of_table[1] by an index slip
LimitGripper_lowerXFromCenterY(gripper_pos, pos_ctrl) ==
    LimitWith(gripper_pos, pos_ctrl, 170000, center_of_table[2] - 10500 - 30000,
              60000, 0, max_z, min_z, 2)
\* the upper y branch writes component 0 instead of component 1
LimitGripper_upperYWritesX(gripper_pos, pos_ctrl) ==
    LimitWith(gripper_pos, pos_ctrl, 170000, 125000, 60000, 0, max_z, min_z, 1)

\* _limit_gripper: six consecutive ifs, each rewriting one component of
\* pos_ctrl in place; the result is the argument array itself
LimitGripper(gripper_pos, pos_ctrl) ==
    LET c1 == IF gripper_pos[1] > center_of_table[1] - 10500 + 15000
              THEN [pos_ctrl EXCEPT ![1] = Min(pos_ctrl[1], 0)] ELSE pos_ctrl
        c2 == IF gripper_pos[1] < center_of_table[1] - 10500 - 30000
              THEN [c1 EXCEPT ![1] = Max(c1[1], 0)] ELSE c1
        c3 == IF gripper_pos[2] > center_of_table[2] + 30000
              THEN [c2 EXCEPT ![2] = Min(c2[2], 0)] ELSE c2
        c4 == IF gripper_pos[2] < center_of_table[2] - 30000
              THEN [c3 EXCEPT ![2] = Max(c3[2], 0)] ELSE c3
        c5 == IF gripper_pos[3] > max_z
              THEN [c4 EXCEPT ![3] = Min(c4[3], 0)] ELSE c4
        c6 == IF gripper_pos[3] < min_z
              THEN [c5 EXCEPT ![3] = Max(c5[3], 0)] ELSE c5
    IN c6

\* pos_ctrl * (1 / self.n_substeps); the action values of the model are
\* multiples of n_substeps, so the quotient is exact
ScaleCtrl(pos_ctrl) == [i \in 1..3 |-> pos_ctrl[i] \div n_substeps]

\* The simulation as the calls of one operation see it: s = [data, mocap, log]

\* _apply_action without action.copy(): the limiter writes into the caller's array
ApplyAction_noCopy(s, rot, action) ==
    LET eef == s.data.site_xpos.grasp
        limited == LimitGripper(eef, SubSeq(action, 1, 3))
    IN [ s |-> [s EXCEPT !.mocap = MocapApplyAction(s.mocap,
                              ScaleCtrl(limited) \o rot \o <<action[4], action[4]>>),
                         !.log = Append(s.log, "mocap.apply_action")],
         arg |-> limited \o <<action[4]>>,
         eef |-> eef,
         limited |-> limited ]

\* _apply_action on an action of shape (4,).  pos_ctrl is a view of the copy,
\* so the limiter's writes land in the copy; `arg` is the caller's array as
\* the call leaves it.
ApplyAction(s, rot, action) ==
    LET copy == action
        eef == s.data.site_xpos.grasp
        limited == LimitGripper(eef, SubSeq(copy, 1, 3))
        pos_ctrl == ScaleCtrl(limited)
        gripper_ctrl == <<copy[4], copy[4]>>
    IN [ s |-> [s EXCEPT !.mocap = MocapApplyAction(s.mocap,
                                        pos_ctrl \o rot \o gripper_ctrl),
                         !.log = Append(s.log, "mocap.apply_action")],
         arg |-> action,
         eef |-> eef,
         limited |-> limited ]

\* self.sim.step() and self.sim.forward()
SimStep(s) ==
    [s EXCEPT !.data = MjStep(s.data, s.mocap), !.log = Append(s.log, "sim.step")]
SimForward(s) ==
    [s EXCEPT !.data = MjForward(s.data), !.log = Append(s.log, "sim.forward")]

RECURSIVE SimStepN(_, _)
SimStepN(s, n) == IF n = 0 THEN s ELSE SimStepN(SimStep(s), n - 1)

\* a post-step hook that does nothing
StepCallback_noop(s) == s

\* _step_callback
StepCallback(s) == SimForward(s)

\* done = self.is_success() in place of the constant
DoneFlag_fromSuccess(success) == success

\* done = False
DoneFlag(success) == FALSE

\* only the shape is asserted
StepAsserts_shapeOnly(action) == Len(action) = n_actions

\* the two assertions that open step
StepAsserts(action) == Len(action) = n_actions /\ ActionSpaceContains(action)

\* get_reward / is_success as step reaches them: the task's, or Base's
GetReward(d, g, ov) ==
    IF "get_reward" \in ov
    THEN [raised |-> "none", returned |-> TRUE, value |-> TaskReward(d, g)]
    ELSE BaseHook("get_reward")
IsSuccess(d, g, ov) ==
    IF "is_success" \in ov
    THEN [raised |-> "none", returned |-> TRUE, value |-> TaskSuccess(d, g)]
    ELSE BaseHook("is_success")

NoRet ==
    [ op |-> "init", action |-> <<>>, action_after |-> <<>>, raised |-> "none",
      returned |-> FALSE, applied |-> FALSE, eef |-> <<>>, limited |-> <<>>,
      time0 |-> 0, obs |-> <<>>, reward |-> "none", done |-> "none",
      info |-> "none", value |-> "none" ]

\* step, once both assertions have passed
StepBody(d, m, rot, g, ov, action) ==
    LET aa == ApplyAction([data |-> d, mocap |-> m, log |-> <<>>], rot, action)
        s2 == SimStepN(aa.s, 2)
        s3 == StepCallback(s2)
        obs == GetObs(s3.data)
        rew == GetReward(s3.data, g, ov)
        suc == IsSuccess(s3.data, g, ov)
        log0 == s3.log \o <<"_get_obs", "get_reward">>
        r0 == [NoRet EXCEPT !.op = "step", !.action = action, !.action_after = aa.arg,
                            !.applied = TRUE, !.eef = aa.eef, !.limited = aa.limited,
                            !.time0 = d.time]
    IN IF rew.raised # "none"
       THEN [ data |-> s3.data, mocap |-> s3.mocap, log |-> log0,
              ret |-> [r0 EXCEPT !.raised = rew.raised] ]
       ELSE [ data |-> s3.data, mocap |-> s3.mocap,
              log |-> log0 \o <<"is_success", "is_success">>,
              ret |-> [r0 EXCEPT !.returned = TRUE, !.obs = obs, !.reward = rew.value,
                                 !.done = DoneFlag(suc.value),
                                 !.info = [is_success |-> suc.value, success |-> suc.value]] ]

\* step(action)
Step(action) ==
    /\ data.time + 2 <= MaxTime
    /\ IF ~StepAsserts(action)
       THEN /\ ret' = [NoRet EXCEPT !.op = "step", !.action = action,
                                    !.action_after = action, !.raised = "AssertionError"]
            /\ log' = <<>>
            /\ UNCHANGED <<data, mocap>>
       ELSE \E r \in {StepBody(data, mocap, gripper_rotation, goal, overridden, action)} :
               /\ data' = r.data
               /\ mocap' = r.mocap
               /\ ret' = r.ret
               /\ log' = r.log
    /\ UNCHANGED <<gripper_rotation, goal, overridden, viewer, viewers, windows, offsize>>

---------------------------------------------------------------------------

RECURSIVE MjForwardN(_, _)
MjForwardN(d, n) == IF n = 0 THEN d ELSE MjForwardN(MjForward(d), n - 1)

RECURSIVE Repeat(_, _)
Repeat(e, n) == IF n = 0 THEN <<>> ELSE <<e>> \o Repeat(e, n - 1)

\* qpos is not copied back
RestoreInitial_noQpos(d) ==
    [d EXCEPT !.time = initial_time, !.qvel = initial_qvel]

\* _reset_sim up to the call of _sample_goal
RestoreInitial(d) ==
    [d EXCEPT !.time = initial_time, !.qpos = initial_qpos, !.qvel = initial_qvel]

\* _reset_sim after _sample_goal has returned: for _ in range(10): mj_forward
Settle(d) == MjForwardN(d, 10)

\* reset(): _reset_sim() then _get_obs()
Reset ==
    /\ IF "_sample_goal" \in overridden
       THEN /\ goal' \in Goals
            /\ data' = Settle(RestoreInitial(data))
            /\ ret' = [NoRet EXCEPT !.op = "reset", !.returned = TRUE,
                                    !.obs = GetObs(data')]
            /\ log' = <<"_sample_goal">> \o Repeat("mj_forward", 10) \o <<"_get_obs">>
       ELSE /\ goal' = goal
            /\ data' = RestoreInitial(data)
            /\ ret' = [NoRet EXCEPT !.op = "reset", !.raised = BaseHook("_sample_goal").raised]
            /\ log' = <<"_sample_goal">>
    /\ UNCHANGED <<mocap, gripper_rotation, overridden, viewer, viewers, windows, offsize>>

\* The renderer acquires its viewer (a glfw window) on first use and caches it.
NewWindow(ws) == CHOOSE w \in 1..(Cardinality(ws) + 1) : w \notin ws
RendererRender(v, vs, ws) ==
    IF v = <<>>
    THEN [viewer |-> <<NewWindow(ws)>>,
          viewers |-> vs \cup {<<"rgb_array", NewWindow(ws)>>},
          windows |-> ws \cup {NewWindow(ws)}]
    ELSE [viewer |-> v, viewers |-> vs, windows |-> ws]

\* render(mode, width, height)
Render(size) ==
    /\ data' = MjForward(data)
    /\ offsize' = size
    /\ \E r \in {RendererRender(viewer, viewers, windows)} :
          /\ viewer' = r.viewer
          /\ viewers' = r.viewers
          /\ windows' = r.windows
    /\ ret' = [NoRet EXCEPT !.op = "render", !.returned = TRUE]
    /\ log' = <<"mj_forward", "mujoco_renderer.render">>
    /\ UNCHANGED <<mocap, gripper_rotation, goal, overridden>>

\* glfw.destroy_window(w): an error if w is not an existing window
GlfwDestroyWindow(ws, w) ==
    [windows |-> ws \ {w}, raised |-> IF w \in ws THEN "none" ELSE "GLFWError"]

\* self.viewer = None is missing
CloseViewer_keepViewer(v, vs, ws) ==
    IF v # <<>>
    THEN [viewer |-> v, viewers |-> {},
          windows |-> GlfwDestroyWindow(ws, v[1]).windows,
          raised |-> GlfwDestroyWindow(ws, v[1]).raised,
          log |-> <<"glfw.destroy_window">>]
    ELSE [viewer |-> v, viewers |-> {}, windows |-> ws, raised |-> "none", log |-> <<>>]

\* close()
CloseViewer(v, vs, ws) ==
    IF v # <<>>
    THEN [viewer |-> <<>>, viewers |-> {},
          windows |-> GlfwDestroyWindow(ws, v[1]).windows,
          raised |-> GlfwDestroyWindow(ws, v[1]).raised,
          log |-> <<"glfw.destroy_window">>]
    ELSE [viewer |-> v, viewers |-> {}, windows |-> ws, raised |-> "none", log |-> <<>>]

Close ==
    /\ \E r \in {CloseViewer(viewer, viewers, windows)} :
          /\ viewer' = r.viewer
          /\ viewers' = r.viewers
          /\ windows' = r.windows
          /\ ret' = [NoRet EXCEPT !.op = "close", !.raised = r.raised,
                                  !.returned = (r.raised = "none")]
          /\ log' = r.log
    /\ UNCHANGED <<data, mocap, gripper_rotation, goal, overridden, offsize>>

\* A call of Base's own implementation of a hook (Base.is_success(env), ...)
CallBaseHook(h) ==
    /\ \E r \in {BaseHook(h)} :
          ret' = [NoRet EXCEPT !.op = h, !.raised = r.raised, !.returned = r.returned,
                               !.value = r.value]
    /\ log' = <<>>
    /\ UNCHANGED <<data, mocap, gripper_rotation, goal, overridden, viewer, viewers,
                   windows, offsize>>

---------------------------------------------------------------------------
(* The environment's life: construction, then any sequence of calls *)

Init ==
    /\ data = [time |-> initial_time, qpos |-> initial_qpos, qvel |-> initial_qvel,
               site_xpos |-> SiteXpos(initial_qpos)]
    /\ mocap = <<>>
    /\ gripper_rotation = DefaultGripperRotation
    /\ goal \in Goals
    /\ overridden \in TaskTypes
    /\ viewer = <<>>
    /\ viewers = {}
    /\ windows = {}
    /\ offsize = InitialOffsize
    /\ ret = NoRet
    /\ log = <<>>

Next ==
    \/ \E a \in Actions : Step(a)
    \/ Reset
    \/ \E size \in RenderSizes : Render(size)
    \/ Close
    \/ \E h \in Hooks : CallBaseHook(h)

Spec == Init /\ [][Next]_vars

---------------------------------------------------------------------------
(* Single calls of step from every gripper position of the grid *)

GridPositions == {<<x, y, z>> : x \in {GridX[i] : i \in 1..4},
                               y \in {GridY[i] : i \in 1..4},
                               z \in {GridZ[i] : i \in 1..4}}

InitCall ==
    /\ \E p \in GridPositions :
          data = [time |-> initial_time, qpos |-> p \o <<0>>, qvel |-> initial_qvel,
                  site_xpos |-> SiteXpos(p \o <<0>>)]
    /\ mocap = <<>>
    /\ gripper_rotation = DefaultGripperRotation
    /\ goal \in Goals
    /\ overridden \in TaskTypes
    /\ viewer = <<>>
    /\ viewers = {}
    /\ windows = {}
    /\ offsize = InitialOffsize
    /\ ret = NoRet
    /\ log = <<>>

StepOnce(a) == ret.op = "init" /\ Step(a)

\* _limit_gripper(eef, pos_ctrl) called on its own
LimitCall(pos_ctrl) ==
    /\ ret.op = "init"
    /\ \E r \in {LimitGripper(data.site_xpos.grasp, pos_ctrl)} :
          ret' = [NoRet EXCEPT !.op = "_limit_gripper", !.action = pos_ctrl,
                               !.action_after = r, !.returned = TRUE,
                               !.eef = data.site_xpos.grasp, !.limited = r]
    /\ log' = <<>>
    /\ UNCHANGED <<data, mocap, gripper_rotation, goal, overridden, viewer, viewers,
                   windows, offsize>>

NextCall ==
    \/ \E a \in Actions : StepOnce(a)
    \/ \E pc \in Deltas : LimitCall(pc)

CallSpec == InitCall /\ [][NextCall]_vars

---------------------------------------------------------------------------
(* Properties *)

\* The workspace box as the specification states it
BoxHi == <<center_of_table[1] - 10500 + 15000, center_of_table[2] + 30000, 120000>>
BoxLo == <<center_of_table[1] - 40500, center_of_table[2] - 30000, 20000>>
BoxHiStated == <<center_of_table[1] + 4500, center_of_table[2] + 30000, 120000>>

LimiterRan == (ret.op = "step" /\ ret.applied) \/ ret.op = "_limit_gripper"
StepApplied == ret.op = "step" /\ ret.applied
ValidAction(a) ==
    Len(a) = 4 /\ \A i \in 1..Len(a) : 0 - ActOne <= a[i] /\ a[i] <= ActOne

\* C1: upper workspace bounds.  Whenever the limiter has run with the gripper
\* beyond the upper bound of an axis (x > centerX - 0.105 + 0.15,
\* y > centerY + 0.3, z > 1.2), the delta it returns on that axis is <= 0, and
\* the position control step hands to the mocap interface on that axis is <= 0.
C1_UpperBounds ==
    LimiterRan =>
        \A i \in 1..3 :
            ret.eef[i] > BoxHi[i] =>
                /\ ret.limited[i] <= 0
                /\ StepApplied => mocap[i] <= 0

\* C1 witness: a step taken with the gripper beyond all three upper bounds
\* and a positive request on every axis.
C1_Witness ==
    /\ StepApplied
    /\ \A i \in 1..3 : ret.eef[i] > BoxHi[i] /\ ret.action[i] > 0 /\ mocap[i] = 0

\* C2: lower workspace bounds.  Whenever the limiter has run with the gripper
\* below the lower bound of an axis (x < centerX - 0.405, y < centerY - 0.3,
\* z < 0.2), the delta it returns on that axis is >= 0 (and so is the control
\* step applies); a downward request made while eef.z < 0.2 becomes exactly 0.
C2_LowerBounds ==
    LimiterRan =>
        /\ \A i \in 1..3 :
              ret.eef[i] < BoxLo[i] =>
                  /\ ret.limited[i] >= 0
                  /\ StepApplied => mocap[i] >= 0
        /\ (ret.eef[3] < 20000 /\ ret.action[3] < 0) =>
              /\ ret.limited[3] = 0
              /\ StepApplied => mocap[3] = 0

\* C2 witness: the limiter called with a downward delta of -10 while the
\* gripper is below every lower bound.
C2_Witness ==
    /\ ret.op = "_limit_gripper"
    /\ \A i \in 1..3 : ret.eef[i] < BoxLo[i]
    /\ ret.action[3] = 0 - 10 * ActOne
    /\ ret.limited[3] = 0

\* C3: each of Base.is_success, Base.get_reward and Base._sample_goal, called
\* without being overridden, raises NotImplementedError and returns nothing.
C3_BaseHooksRaise ==
    ret.op \in Hooks => (ret.raised = "NotImplementedError" /\ ~ret.returned)

\* C4: a step whose action has not exactly 4 components, or has a component
\* outside the action space, fails with an error and returns nothing, having
\* written no mocap target, advanced no simulation state, called nothing and
\* left the action as it was.
C4_InvalidActionRejected ==
    [][ (ret'.op = "step" /\ ~ValidAction(ret'.action)) =>
            /\ ret'.raised = "AssertionError"
            /\ ~ret'.returned
            /\ ~ret'.applied
            /\ ret'.action_after = ret'.action
            /\ log' = <<>>
            /\ data' = data
            /\ mocap' = mocap ]_vars

\* C4 witness: the out-of-range action [0, 0, -10, 0] rejected by an
\* environment whose mocap target an earlier step had set.
C4_Witness ==
    /\ ret.op = "step"
    /\ ret.action = <<0, 0, 0 - 10 * ActOne, 0>>
    /\ ret.raised = "AssertionError"
    /\ mocap # <<>>
    /\ data.time > initial_time

\* C5: every step that returns, returns done = False.
C5_DoneAlwaysFalse ==
    (ret.op = "step" /\ ret.returned) => ret.done = FALSE

\* C5 witness: a returning step whose success flag is True.
C5_Witness ==
    /\ ret.op = "step"
    /\ ret.returned
    /\ ret.info.is_success = TRUE
    /\ ret.done = FALSE

\* C6: close is idempotent.  After any close there is no viewer, the viewer
\* cache is empty, no glfw window is left and no error was raised; a close
\* that follows a close destroys nothing and changes nothing.
C6_CloseIdempotent ==
    /\ [](ret.op = "close" =>
            /\ viewer = <<>>
            /\ viewers = {}
            /\ windows = {}
            /\ ret.raised = "none")
    /\ [][ (ret.op = "close" /\ ret'.op = "close") =>
               /\ log' = <<>>
               /\ ret'.raised = "none"
               /\ viewer' = viewer /\ viewers' = viewers /\ windows' = windows
               /\ data' = data /\ mocap' = mocap ]_vars

\* C6 witness: a close that found no viewer, although a render had created
\* one earlier (so an earlier close destroyed its window).
C6_Witness ==
    /\ ret.op = "close"
    /\ log = <<>>
    /\ offsize # InitialOffsize
    /\ windows = {}

\* C7: after a reset that returns, time, qpos and qvel have their initial
\* values and robot_state (and the observation returned) is the one fixed
\* initial robot state, whatever was called before.
C7_ResetHistoryIndependent ==
    (ret.op = "reset" /\ ret.returned) =>
        /\ data.time = initial_time
        /\ data.qpos = initial_qpos
        /\ data.qvel = initial_qvel
        /\ RobotState(data) = <<125000, 0, 20000, 0>>
        /\ ret.obs = <<125000, 0, 20000, 0>>

\* C7 witness: a reset after a step that had driven the arm along x and
\* closed the gripper.
C7_Witness ==
    /\ ret.op = "reset"
    /\ ret.returned
    /\ mocap # <<>>
    /\ mocap[1] # 0
    /\ mocap[8] > 0

\* C8: a step that returns has called, in this order, the mocap interface
\* once, sim.step twice, the post-step hook, _get_obs, get_reward and
\* is_success; the simulation is 2 substeps later than before the call, and
\* observation, reward and success flag are those of the simulation state the
\* step leaves behind, whose site positions match its joint positions.
C8_StepPhases ==
    (ret.op = "step" /\ ret.returned) =>
        /\ log = <<"mocap.apply_action", "sim.step", "sim.step", "sim.forward",
                   "_get_obs", "get_reward", "is_success", "is_success">>
        /\ data.time = ret.time0 + 2
        /\ mocap = [i \in 1..3 |-> ret.limited[i] \div 20] \o gripper_rotation
                      \o <<ret.action[4], ret.action[4]>>
        /\ data.site_xpos.grasp = SubSeq(data.qpos, 1, 3)
        /\ ret.obs = SubSeq(data.qpos, 1, 4)
        /\ "get_reward" \in overridden => ret.reward = TaskReward(data, goal)
        /\ "is_success" \in overridden =>
              /\ ret.info.is_success = TaskSuccess(data, goal)
              /\ ret.info.success = TaskSuccess(data, goal)

\* C8 witness: a returning step during which the arm moved on every axis.
C8_Witness ==
    /\ ret.op = "step"
    /\ ret.returned
    /\ \A i \in 1..3 : ret.obs[i] # ret.eef[i]
    /\ data.time = 4

\* C9: the limiter only suppresses motion in an offending direction.  On each
\* axis the returned delta is the requested one or 0; it is the requested one
\* whenever the coordinate is inside the stated box (x in [centerX - 0.405,
\* centerX + 0.045], y in [centerY - 0.3, centerY + 0.3], z in [0.2, 1.2]) and
\* whenever the request does not point further out of the box.
C9_OnlyOffendingDirection ==
    LimiterRan =>
        \A i \in 1..3 :
            /\ ret.limited[i] \in {ret.action[i], 0}
            /\ (BoxLo[i] <= ret.eef[i] /\ ret.eef[i] <= BoxHiStated[i])
                  => ret.limited[i] = ret.action[i]
            /\ (ret.eef[i] > BoxHiStated[i] /\ ret.action[i] <= 0)
                  => ret.limited[i] = ret.action[i]
            /\ (ret.eef[i] < BoxLo[i] /\ ret.action[i] >= 0)
                  => ret.limited[i] = ret.action[i]

\* C9 witness: x is beyond its upper bound and its positive delta is zeroed,
\* y is on its upper bound and keeps its positive delta, z is below its lower
\* bound and keeps its positive delta.
C9_Witness ==
    /\ ret.op = "_limit_gripper"
    /\ ret.eef[1] > BoxHiStated[1] /\ ret.action[1] > 0 /\ ret.limited[1] = 0
    /\ ret.eef[2] = BoxHiStated[2] /\ ret.action[2] > 0 /\ ret.limited[2] = ret.action[2]
    /\ ret.eef[3] < BoxLo[3] /\ ret.action[3] > 0 /\ ret.limited[3] = ret.action[3]

\* C10: step leaves the caller's action array as it was passed, clamped or
\* not, and leaves gripper_rotation as it was.
C10_ActionUntouched ==
    /\ [](ret.op = "step" => ret.action_after = ret.action)
    /\ [][ret'.op = "step" => gripper_rotation' = gripper_rotation]_vars

\* C10 witness: a step in which the limiter clamped the x and the z delta.
C10_Witness ==
    /\ ret.op = "step"
    /\ ret.applied
    /\ ret.limited[1] # ret.action[1]
    /\ ret.limited[3] # ret.action[3]
    /\ ret.action_after = ret.action
====
